---- MODULE Spec2Model ----
(***************************************************************************)
(* Model of server.js: the two upload endpoints POST /api/optimize and     *)
(* POST /api/ats-score, the multer upload middleware in front of them, the *)
(* extractJsonBlock helper and the parse / required-field checks.          *)
(*                                                                         *)
(* A text is a sequence of characters.  The characters that the code's     *)
(* regular expressions and JSON.parse tell apart are kept apart; a run of  *)
(* characters they treat as a unit (the three backticks of a fence, the    *)
(* word json, a property name, a number) is one element of the sequence.   *)
(***************************************************************************)
EXTENDS Integers, Sequences, FiniteSets, TLC

\* Longest completion text enumerated character by character.
MaxLen == 4

---------------------------------------------------------------------------
\* Characters

\* the three backticks that open or close a fenced block
Fence == "<fence>"
Space == " "
Quote == "\""
JsonLabels == {"json", "JSON"}

Min(S) == CHOOSE x \in S : \A y \in S : x <= y
Max(S) == CHOOSE x \in S : \A y \in S : y <= x

\* \s of the regular expressions, and the whitespace String.prototype.trim strips
IsSpace(c) == c = Space

\* String.prototype.trim
trim(text) ==
  LET keep == {j \in 1..Len(text) : ~IsSpace(text[j])}
  IN  IF keep = {} THEN <<>> ELSE SubSeq(text, Min(keep), Max(keep))

\* String.prototype.indexOf(c, from); 0 stands for the -1 of JavaScript
indexOfFrom(text, c, from) ==
  LET at == {j \in from..Len(text) : text[j] = c}
  IN  IF at = {} THEN 0 ELSE Min(at)

indexOf(text, c) == indexOfFrom(text, c, 1)

\* String.prototype.lastIndexOf(c); 0 stands for -1
lastIndexOf(text, c) ==
  LET at == {j \in 1..Len(text) : text[j] = c}
  IN  IF at = {} THEN 0 ELSE Max(at)

\* greedy \s* starting at position i: the first position that is not a space
SkipSpace(text, i) ==
  LET stop == {j \in i..Len(text) : ~IsSpace(text[j])}
  IN  IF stop = {} THEN Max({i, Len(text) + 1}) ELSE Min(stop)

NoMatch == [found |-> FALSE, cap |-> <<>>]

---------------------------------------------------------------------------
\* extractJsonBlock

\* The label the first regular expression accepts after the fence.  The /i
\* flag makes it accept json in any letter case.
FenceJsonLabelCaseSensitive(c) == c = "json"
FenceJsonLabel(c) == c \in JsonLabels

\* /```\s*json\s*([\s\S]*?)```/i tried at position i: the fence, greedy
\* spaces, the label, greedy spaces, then the lazy group up to the next fence.
FenceJsonAt(text, i) ==
  IF text[i] # Fence THEN NoMatch
  ELSE LET k == SkipSpace(text, i + 1)
       IN  IF k > Len(text) \/ ~FenceJsonLabel(text[k]) THEN NoMatch
           ELSE LET b == SkipSpace(text, k + 1)
                    e == indexOfFrom(text, Fence, b)
                IN  IF e = 0 THEN NoMatch
                    ELSE [found |-> TRUE, cap |-> SubSeq(text, b, e - 1)]

\* /```\s*([\s\S]*?)```/ tried at position i
FenceAnyAt(text, i) ==
  IF text[i] # Fence THEN NoMatch
  ELSE LET b == SkipSpace(text, i + 1)
           e == indexOfFrom(text, Fence, b)
       IN  IF e = 0 THEN NoMatch
           ELSE [found |-> TRUE, cap |-> SubSeq(text, b, e - 1)]

\* text.match(re): the match at the leftmost position where one exists
fenceJson(text) ==
  LET at == {i \in 1..Len(text) : FenceJsonAt(text, i).found}
  IN  IF at = {} THEN NoMatch ELSE FenceJsonAt(text, Min(at))

fenceAny(text) ==
  LET at == {i \in 1..Len(text) : FenceAnyAt(text, i).found}
  IN  IF at = {} THEN NoMatch ELSE FenceAnyAt(text, Min(at))

\* The result of extractJsonBlock: found = FALSE is the null it returns.
NotFound == [found |-> FALSE, str |-> <<>>]
Found(s) == [found |-> TRUE, str |-> s]

\* A slip that hands the whole text on when nothing JSON-like was located.
extractJsonBlockWholeText(text) ==
  LET fj == fenceJson(text)
      fa == fenceAny(text)
      first == indexOf(text, "{")
      last == lastIndexOf(text, "}")
  IN  IF fj.found /\ fj.cap # <<>> THEN Found(trim(fj.cap))
      ELSE IF fa.found /\ fa.cap # <<>> THEN Found(trim(fa.cap))
      ELSE IF first # 0 /\ last # 0 /\ last > first
           THEN Found(trim(SubSeq(text, first, last)))
      ELSE Found(text)

extractJsonBlock(text) ==
  LET fj == fenceJson(text)
      fa == fenceAny(text)
      first == indexOf(text, "{")
      last == lastIndexOf(text, "}")
  IN  IF fj.found /\ fj.cap # <<>> THEN Found(trim(fj.cap))
      ELSE IF fa.found /\ fa.cap # <<>> THEN Found(trim(fa.cap))
      ELSE IF first # 0 /\ last # 0 /\ last > first
           THEN Found(trim(SubSeq(text, first, last)))
      ELSE NotFound

---------------------------------------------------------------------------
\* JSON values, JSON.stringify and JSON.parse

\* A value: t is its type, n the number (or 1/0 for true/false), s the
\* characters of a string, kids the members <<name, value>> of an object in
\* order, or the elements <<<<>>, value>> of an array.
JUndefined == [t |-> "undefined", n |-> 0, s |-> <<>>, kids |-> <<>>]
JNull == [t |-> "null", n |-> 0, s |-> <<>>, kids |-> <<>>]
JBool(b) == [t |-> "bool", n |-> IF b THEN 1 ELSE 0, s |-> <<>>, kids |-> <<>>]
JNum(n) == [t |-> "num", n |-> n, s |-> <<>>, kids |-> <<>>]
JStr(s) == [t |-> "str", n |-> 0, s |-> s, kids |-> <<>>]
RECURSIVE Elements(_)
Elements(items) ==
  IF items = <<>> THEN <<>>
  ELSE << << <<>>, Head(items) >> >> \o Elements(Tail(items))
JArr(items) == [t |-> "arr", n |-> 0, s |-> <<>>, kids |-> Elements(items)]
JObj(members) == [t |-> "obj", n |-> 0, s |-> <<>>, kids |-> members]
Member(name, v) == << <<name>>, v >>

Numbers == 0..100
NumberTokens == {ToString(n) : n \in Numbers}
NumberOf(c) == CHOOSE n \in Numbers : ToString(n) = c

\* JSON.stringify(v); sp is the whitespace written after ':' and ','
RECURSIVE Stringify(_, _)
RECURSIVE StringifyKids(_, _, _, _)
StringifyKids(kids, j, named, sp) ==
  IF j > Len(kids) THEN <<>>
  ELSE (IF j > 1 THEN <<",">> \o sp ELSE <<>>)
       \o (IF named THEN <<Quote>> \o kids[j][1] \o <<Quote, ":">> \o sp ELSE <<>>)
       \o Stringify(kids[j][2], sp)
       \o StringifyKids(kids, j + 1, named, sp)

Stringify(v, sp) ==
  CASE v.t = "null" -> <<"null">>
    [] v.t = "bool" -> IF v.n = 1 THEN <<"true">> ELSE <<"false">>
    [] v.t = "num" -> <<ToString(v.n)>>
    [] v.t = "str" -> <<Quote>> \o v.s \o <<Quote>>
    [] v.t = "arr" -> <<"[">> \o StringifyKids(v.kids, 1, FALSE, sp) \o <<"]">>
    [] v.t = "obj" -> <<"{">> \o StringifyKids(v.kids, 1, TRUE, sp) \o <<"}">>

ParseFail == [ok |-> FALSE, v |-> JUndefined, i |-> 0]
ParseOk(v, i) == [ok |-> TRUE, v |-> v, i |-> i]

\* obj[name] = v while parsing: a repeated name overwrites the earlier value
RECURSIVE SetMember(_, _, _)
SetMember(kids, name, v) ==
  IF kids = <<>> THEN << <<name, v>> >>
  ELSE IF Head(kids)[1] = name THEN << <<name, v>> >> \o Tail(kids)
  ELSE <<Head(kids)>> \o SetMember(Tail(kids), name, v)

RECURSIVE ParseValue(_, _)
RECURSIVE ParseElements(_, _, _)
RECURSIVE ParseMembers(_, _, _)

\* the elements of an array, from position i0 (after '[' or after a ',')
ParseElements(str, i0, acc) ==
  LET i == SkipSpace(str, i0)
  IN  IF i > Len(str) THEN ParseFail
      ELSE IF str[i] = "]"
           THEN IF acc = <<>> THEN ParseOk(JArr(acc), i + 1) ELSE ParseFail
      ELSE LET r == ParseValue(str, i)
               j == SkipSpace(str, r.i)
           IN  IF ~r.ok \/ j > Len(str) THEN ParseFail
               ELSE IF str[j] = "," THEN ParseElements(str, j + 1, Append(acc, r.v))
               ELSE IF str[j] = "]" THEN ParseOk(JArr(Append(acc, r.v)), j + 1)
               ELSE ParseFail

\* the members of an object, from position i0 (after '{' or after a ',')
ParseMembers(str, i0, acc) ==
  LET i == SkipSpace(str, i0)
  IN  IF i > Len(str) THEN ParseFail
      ELSE IF str[i] = "}"
           THEN IF acc = <<>> THEN ParseOk(JObj(acc), i + 1) ELSE ParseFail
      ELSE IF str[i] # Quote THEN ParseFail
      ELSE LET q == indexOfFrom(str, Quote, i + 1)
               c == SkipSpace(str, q + 1)
           IN  IF q = 0 \/ c > Len(str) THEN ParseFail
               ELSE IF str[c] # ":" THEN ParseFail
               ELSE LET name == SubSeq(str, i + 1, q - 1)
                        r == ParseValue(str, c + 1)
                        j == SkipSpace(str, r.i)
                    IN  IF ~r.ok \/ j > Len(str) THEN ParseFail
                        ELSE IF str[j] = ","
                             THEN ParseMembers(str, j + 1, SetMember(acc, name, r.v))
                        ELSE IF str[j] = "}"
                             THEN ParseOk(JObj(SetMember(acc, name, r.v)), j + 1)
                        ELSE ParseFail

\* one JSON value starting at or after position i0
ParseValue(str, i0) ==
  LET i == SkipSpace(str, i0)
  IN  IF i > Len(str) THEN ParseFail
      ELSE LET c == str[i]
           IN  CASE c = "null" -> ParseOk(JNull, i + 1)
                 [] c = "true" -> ParseOk(JBool(TRUE), i + 1)
                 [] c = "false" -> ParseOk(JBool(FALSE), i + 1)
                 [] c \in NumberTokens -> ParseOk(JNum(NumberOf(c)), i + 1)
                 [] c = Quote ->
                      LET q == indexOfFrom(str, Quote, i + 1)
                      IN  IF q = 0 THEN ParseFail
                          ELSE ParseOk(JStr(SubSeq(str, i + 1, q - 1)), q + 1)
                 [] c = "[" -> ParseElements(str, i + 1, <<>>)
                 [] c = "{" -> ParseMembers(str, i + 1, <<>>)
                 [] OTHER -> ParseFail

\* JSON.parse(str): ok = FALSE is the SyntaxError it throws
JSONparse(str) ==
  LET r == ParseValue(str, 1)
  IN  IF r.ok /\ SkipSpace(str, r.i) > Len(str)
      THEN [ok |-> TRUE, v |-> r.v]
      ELSE [ok |-> FALSE, v |-> JUndefined]

\* v[name] for a v that is neither null nor undefined
Get(v, name) ==
  IF v.t = "obj" /\ \E j \in 1..Len(v.kids) : v.kids[j][1] = <<name>>
  THEN v.kids[CHOOSE j \in 1..Len(v.kids) : v.kids[j][1] = <<name>>][2]
  ELSE JUndefined

Has(v, name) == v.t = "obj" /\ \E j \in 1..Len(v.kids) : v.kids[j][1] = <<name>>

\* !v is false
Truthy(v) ==
  CASE v.t \in {"obj", "arr"} -> TRUE
    [] v.t = "str" -> v.s # <<>>
    [] v.t \in {"num", "bool"} -> v.n # 0
    [] OTHER -> FALSE

---------------------------------------------------------------------------
\* Configuration read at startup

VARIABLES
  apiKey,        \* process.env.GEMINI_API_KEY; "" when it is not set
  envModel,      \* process.env.GEMINI_MODEL; "" when it is not set
  pc,            \* where the request in flight is
  endpoint,      \* the route of the request in flight
  jobDescriptionField,  \* req.body.jobDescription as posted
  file,          \* the file part of the upload
  aiCalls,       \* the calls of model.generateContent made for the request
  aiResult,      \* "pending", "text" or "raised"
  responseText,  \* result.response.text()
  jsonStr,       \* what extractJsonBlock returned
  parsed,        \* what JSON.parse returned
  sent           \* the responses written for the request, in order

vars == <<apiKey, envModel, pc, endpoint, jobDescriptionField, file, aiCalls,
          aiResult, responseText, jsonStr, parsed, sent>>

\* const modelName = process.env.GEMINI_MODEL || 'gemini-1.5-pro'
modelName == IF envModel # "" THEN envModel ELSE "gemini-1.5-pro"

\* const genAI = apiKey ? new GoogleGenerativeAI(apiKey) : null; TRUE when a
\* client exists
genAI == apiKey # ""

\* genAI.getGenerativeModel({ model: 'gemini-2.5-flash' })
getGenerativeModel == "gemini-2.5-flash"

---------------------------------------------------------------------------
\* The upload middleware

AllowedMimeTypes ==
  {"application/pdf", "application/msword",
   "application/vnd.openxmlformats-officedocument.wordprocessingml.document"}

FileSizeLimit == 8 * 1024 * 1024

NoFile == [present |-> FALSE, mimetype |-> "", size |-> 0]
FilePart(m, n) == [present |-> TRUE, mimetype |-> m, size |-> n]

NoResponse == [status |-> 0, type |-> "none", error |-> "", details |-> "", body |-> JUndefined]

\* res.status(code).json({ error })
JsonError(code, msg) ==
  [status |-> code, type |-> "json", error |-> msg, details |-> "", body |-> JUndefined]

\* res.json(value)
JsonOk(value) ==
  [status |-> 200, type |-> "json", error |-> "", details |-> "", body |-> value]

\* No error-handling middleware is registered, so an error that a middleware
\* hands to next(err) reaches the default error handler of express, which
\* answers 500 with an HTML page, the error carrying no status of its own.
DefaultErrorHandler(msg) ==
  [status |-> 500, type |-> "html", error |-> msg, details |-> "", body |-> JUndefined]

\* upload.single('resume'): the response it causes, or NoResponse when it
\* calls the route handler.  fileFilter runs when the part starts, the size
\* limit while its bytes are read.
upload(f) ==
  IF ~f.present THEN NoResponse
  ELSE IF f.mimetype \notin AllowedMimeTypes
       THEN DefaultErrorHandler("Only PDF and DOC/DOCX files are allowed")
  ELSE IF f.size > FileSizeLimit
       THEN DefaultErrorHandler("File too large")
  ELSE NoResponse

---------------------------------------------------------------------------
\* The route handlers

Endpoints == {"/api/optimize", "/api/ats-score"}

\* A slip that leaves out the check of genAI.
PreflightNoCredentialCheck(jd, f, client) ==
  IF trim(jd) = <<>> THEN JsonError(400, "Job description is required")
  ELSE IF ~f.present THEN JsonError(400, "Resume file is required")
  ELSE NoResponse

\* The checks a handler makes before it builds the prompt: the response it
\* returns, or NoResponse when it goes on.
Preflight(jd, f, client) ==
  IF trim(jd) = <<>> THEN JsonError(400, "Job description is required")
  ELSE IF ~f.present THEN JsonError(400, "Resume file is required")
  ELSE IF ~client THEN JsonError(500, "Server missing GEMINI_API_KEY")
  ELSE NoResponse

\* A slip that logs the error and answers nothing.
CatchLogOnly(s, msg) == s

\* catch (err) { console.error(err); res.status(500).json({ error: 'Server
\* error', details: err?.message }) }
Catch(s, msg) ==
  Append(s, [status |-> 500, type |-> "json", error |-> "Server error",
             details |-> msg, body |-> JUndefined])

\* if (!parsed.optimizedHtml || !parsed.changes) and
\* if (!parsed.overallScore || !parsed.scoreBreakdown || !parsed.detailedFeedback)
MissingRequired(ep, v) ==
  IF ep = "/api/optimize"
  THEN ~Truthy(Get(v, "optimizedHtml")) \/ ~Truthy(Get(v, "changes"))
  ELSE \/ ~Truthy(Get(v, "overallScore"))
       \/ ~Truthy(Get(v, "scoreBreakdown"))
       \/ ~Truthy(Get(v, "detailedFeedback"))

\* A slip that returns the parsed object whole on both routes.
SuccessBodyUnfiltered(ep, v) == v

\* res.json({ optimizedHtml: parsed.optimizedHtml, changes: parsed.changes })
\* and res.json(parsed)
SuccessBody(ep, v) ==
  IF ep = "/api/optimize"
  THEN JObj(<< <<<<"optimizedHtml">>, Get(v, "optimizedHtml")>>,
               <<<<"changes">>, Get(v, "changes")>> >>)
  ELSE v

---------------------------------------------------------------------------
\* Requests and completions

\* The posted field; <<>> is also what (req.body.jobDescription || '') makes
\* of a field that was not posted.
JobDescriptions == {<<>>, <<Space>>, <<"a">>, <<Space, "a", Space>>}

Files ==
  {NoFile}
    \cup {FilePart(m, n) : m \in AllowedMimeTypes \cup {"image/png"},
                           n \in {1, FileSizeLimit + 1}}

Plain == <<"a">>
StrList == JArr(<<JStr(Plain)>>)

\* the CHANGES_SUMMARY object the optimize prompt asks for
Changes ==
  JObj(<<Member("keywordsAdded", StrList),
         Member("sectionsImproved", StrList),
         Member("formattingAdjustments", JArr(<<>>)),
         Member("rationale", JStr(Plain))>>)

\* the object the optimize prompt asks for
OptimizeDoc(html) ==
  JObj(<<Member("optimizedHtml", JStr(html)), Member("changes", Changes)>>)

ScoreBreakdown ==
  JObj(<<Member("keywordMatch", JNum(90)), Member("formatting", JNum(85)),
         Member("contentRelevance", JNum(0)), Member("structure", JNum(100))>>)

DetailedFeedback ==
  JObj(<<Member("strengths", StrList),
         Member("weaknesses", StrList),
         Member("keywordAnalysis",
                JObj(<<Member("matched", StrList), Member("missing", JArr(<<>>)),
                       Member("suggested", StrList)>>)),
         Member("formattingIssues", StrList),
         Member("recommendations", StrList)>>)

\* the object the score prompt asks for
ScoreDoc(score, label) ==
  JObj(<<Member("overallScore", JNum(score)),
         Member("scoreBreakdown", ScoreBreakdown),
         Member("detailedFeedback", DetailedFeedback),
         Member("atsCompatibility", JStr(label))>>)

\* obj without the member called name
RECURSIVE DropKid(_, _)
DropKid(kids, name) ==
  IF kids = <<>> THEN <<>>
  ELSE IF Head(kids)[1] = <<name>> THEN DropKid(Tail(kids), name)
  ELSE <<Head(kids)>> \o DropKid(Tail(kids), name)

Without(obj, name) == JObj(DropKid(obj.kids, name))
With(obj, name, v) == JObj(Append(obj.kids, Member(name, v)))

\* Completions that follow the format the prompts ask for
SchemaDocuments ==
  {OptimizeDoc(Plain),
   OptimizeDoc(<<"{", "a", "}", "}">>),
   OptimizeDoc(<<Fence, "a", Fence>>),
   OptimizeDoc(<<>>),
   With(OptimizeDoc(Plain), "note", JStr(Plain)),
   ScoreDoc(85, Plain),
   ScoreDoc(0, Plain),
   ScoreDoc(85, <<"{", Fence>>)}

\* JSON values that lack something the format asks for
OtherDocuments ==
  {JNull, JNum(85), JBool(FALSE), JStr(Plain), JArr(<<>>), JObj(<<>>),
   Without(OptimizeDoc(Plain), "changes"),
   Without(OptimizeDoc(Plain), "optimizedHtml"),
   With(Without(OptimizeDoc(Plain), "changes"), "changes", JNull),
   Without(ScoreDoc(85, Plain), "overallScore"),
   Without(ScoreDoc(85, Plain), "scoreBreakdown"),
   Without(ScoreDoc(85, Plain), "detailedFeedback")}

Documents == SchemaDocuments \cup OtherDocuments

\* How a completion presents its JSON: as it is, or in a fenced block with or
\* without a label
Wraps == {"bare", "fence", "json", "JSON"}

Wrap(w, str) ==
  CASE w = "bare" -> str
    [] w = "fence" -> <<Fence, Space>> \o str \o <<Space, Fence>>
    [] w = "json" -> <<Fence, "json", Space>> \o str \o <<Space, Fence>>
    [] w = "JSON" -> <<Fence, "JSON", Space>> \o str \o <<Space, Fence>>

\* What may stand before the JSON: nothing, or a fenced block of something else
Prefixes == {<<>>, <<Fence, "a", Fence, Space>>}

Spacings == {<<>>, <<Space>>}

StructuredTexts ==
  {pre \o Wrap(w, Stringify(d, sp)) :
     pre \in Prefixes, w \in Wraps, d \in Documents, sp \in Spacings}

FreeAlphabet == {Fence, Space, "json", "JSON", "{", "}"}

RECURSIVE SeqsUpTo(_, _)
SeqsUpTo(S, n) ==
  IF n = 0 THEN {<<>>}
  ELSE LET P == SeqsUpTo(S, n - 1)
       IN  P \cup {Append(q, c) : q \in P, c \in S}

FreeTexts == SeqsUpTo(FreeAlphabet, MaxLen)

\* The texts result.response.text() may return
Completions == FreeTexts \cup StructuredTexts

---------------------------------------------------------------------------
\* The server

Terminal == pc \in {"Responded", "Error"}

Init ==
  /\ apiKey \in {"", "key"}
  /\ envModel \in {"", "gemini-1.5-flash"}
  /\ pc = "Idle"
  /\ endpoint = "none"
  /\ jobDescriptionField = <<>>
  /\ file = NoFile
  /\ aiCalls = <<>>
  /\ aiResult = "pending"
  /\ responseText = <<>>
  /\ jsonStr = NotFound
  /\ parsed = JUndefined
  /\ sent = <<>>

\* A request arrives at one of the two routes.
Receive(ep, jd, f) ==
  /\ pc = "Idle"
  /\ pc' = "Received"
  /\ endpoint' = ep
  /\ jobDescriptionField' = jd
  /\ file' = f
  /\ UNCHANGED <<apiKey, envModel, aiCalls, aiResult, responseText, jsonStr,
                 parsed, sent>>

\* upload.single('resume') runs before the handler.
Upload ==
  /\ pc = "Received"
  /\ LET r == upload(file)
     IN  IF r.status # 0
         THEN /\ sent' = Append(sent, r)
              /\ pc' = "Error"
         ELSE /\ sent' = sent
              /\ pc' = "Handler"
  /\ UNCHANGED <<apiKey, envModel, endpoint, jobDescriptionField, file, aiCalls,
                 aiResult, responseText, jsonStr, parsed>>

\* The handler up to its await: the checks, the model, the parts, the call.
HandlerEntry ==
  /\ pc = "Handler"
  /\ LET r == Preflight(jobDescriptionField, file, genAI)
     IN  IF r.status # 0
         THEN /\ sent' = Append(sent, r)
              /\ pc' = "Error"
              /\ aiCalls' = aiCalls
         ELSE /\ sent' = sent
              /\ pc' = "AwaitingAI"
              /\ aiCalls' = Append(aiCalls,
                                   [model |-> getGenerativeModel,
                                    jobDescription |-> trim(jobDescriptionField),
                                    mimeType |-> file.mimetype])
  /\ UNCHANGED <<apiKey, envModel, endpoint, jobDescriptionField, file,
                 aiResult, responseText, jsonStr, parsed>>

\* model.generateContent rejects, or result.response.text() throws.
AIRaises ==
  /\ pc = "AwaitingAI"
  /\ aiResult' = "raised"
  /\ sent' = Catch(sent, "upstream")
  /\ pc' = "Error"
  /\ UNCHANGED <<apiKey, envModel, endpoint, jobDescriptionField, file, aiCalls,
                 responseText, jsonStr, parsed>>

\* The handler from the point where the awaited call has resolved: the
\* text of the completion, extractJsonBlock, JSON.parse, the required-field
\* check and the response, which run to the end without another await.
\* Reading a property of null throws a TypeError, which the catch of the
\* handler answers.  The result holds the locals jsonStr and parsed as the
\* run leaves them and the responses it writes.
Resume(ep, text) ==
  LET j == extractJsonBlock(text)
      r == JSONparse(j.str)
      Failed(p, out) == [jsonStr |-> j, parsed |-> p, sent |-> out, pc |-> "Error"]
  IN  IF ~j.found \/ j.str = <<>>
      THEN Failed(JUndefined,
                  <<JsonError(502, "Invalid response from AI (no JSON found)")>>)
      ELSE IF ~r.ok
      THEN Failed(JUndefined, <<JsonError(502, "Failed to parse AI response JSON")>>)
      ELSE IF r.v.t = "null"
      THEN Failed(r.v, Catch(<<>>, "TypeError"))
      ELSE IF MissingRequired(ep, r.v)
      THEN Failed(r.v, <<JsonError(502, "AI response missing required fields")>>)
      ELSE [jsonStr |-> j, parsed |-> r.v,
            sent |-> <<JsonOk(SuccessBody(ep, r.v))>>, pc |-> "Responded"]

\* model.generateContent resolves, result.response.text() returns text, and
\* the handler runs to its end.
AIReturns(text) ==
  /\ pc = "AwaitingAI"
  /\ aiResult' = "text"
  /\ responseText' = text
  /\ LET out == Resume(endpoint, text)
     IN  /\ jsonStr' = out.jsonStr
         /\ parsed' = out.parsed
         /\ sent' = sent \o out.sent
         /\ pc' = out.pc
  /\ UNCHANGED <<apiKey, envModel, endpoint, jobDescriptionField, file, aiCalls>>

\* The request is over; its locals are gone and the server takes the next.
NextRequest ==
  /\ Terminal
  /\ pc' = "Idle"
  /\ endpoint' = "none"
  /\ jobDescriptionField' = <<>>
  /\ file' = NoFile
  /\ aiCalls' = <<>>
  /\ aiResult' = "pending"
  /\ responseText' = <<>>
  /\ jsonStr' = NotFound
  /\ parsed' = JUndefined
  /\ sent' = <<>>
  /\ UNCHANGED <<apiKey, envModel>>

Next ==
  \/ \E ep \in Endpoints, jd \in JobDescriptions, f \in Files : Receive(ep, jd, f)
  \/ Upload
  \/ HandlerEntry
  \/ AIRaises
  \/ \E text \in Completions : AIReturns(text)
  \/ NextRequest

Spec == Init /\ [][Next]_vars

\* The middleware and the handler run once started, and the provider call
\* comes back one way or the other; requests need not keep arriving.  Both
\* outcomes of the call are enabled exactly while it is pending, so weak
\* fairness of one of them says that no call stays pending for ever without
\* saying which way it comes back.
FairSpec ==
  /\ Spec
  /\ WF_vars(Upload)
  /\ WF_vars(HandlerEntry)
  /\ WF_vars(AIRaises)

---------------------------------------------------------------------------
\* Properties

\* the job description is empty or consists of whitespace only
Blank(jd) == \A j \in 1..Len(jd) : IsSpace(jd[j])

\* the upload middleware lets the file through
Accepted(f) == f.present /\ f.mimetype \in AllowedMimeTypes /\ f.size <= FileSizeLimit

\* the one response of a finished request has this status
Answered(code) == Len(sent) = 1 /\ sent[1].status = code

\* C1: on both endpoints a request whose job description is empty or
\* whitespace-only, or that has no resume file attached, is answered with
\* HTTP 400, and the AI Gateway is never invoked for it.
C1_BlankOrNoFileIs400 ==
  (Blank(jobDescriptionField) \/ ~file.present)
    => /\ aiCalls = <<>>
       /\ Terminal => Answered(400)

\* C2: on both endpoints a request whose file has a MIME type outside the
\* allowed set, or exceeds the 8 MiB cap, is answered with HTTP 400 and a
\* JSON error body, and the AI Gateway is not invoked.
C2_RejectedFileIs400Json ==
  (file.present /\ ~Accepted(file))
    => /\ aiCalls = <<>>
       /\ Terminal => /\ Answered(400)
                      /\ sent[1].type = "json"
                      /\ sent[1].error # ""

\* C3 as stated: with no credential configured every request, whatever its
\* input, is answered 500 'Server missing GEMINI_API_KEY', and no call is
\* issued to the provider.
C3_EveryRequestIsConfigError ==
  apiKey = ""
    => /\ aiCalls = <<>>
       /\ Terminal => sent = <<JsonError(500, "Server missing GEMINI_API_KEY")>>

\* C3 as amended: with no credential configured no call is issued to the
\* provider for any request, every request fails, and every request that
\* passes the upload and the input checks (accepted file, non-blank job
\* description) is answered 500 'Server missing GEMINI_API_KEY'.
C3_CredentialGating ==
  apiKey = ""
    => /\ aiCalls = <<>>
       /\ aiResult = "pending"
       /\ Terminal => /\ Len(sent) = 1
                      /\ sent[1].status >= 400
       /\ (Terminal /\ ~Blank(jobDescriptionField) /\ Accepted(file))
            => sent = <<JsonError(500, "Server missing GEMINI_API_KEY")>>

\* C3: a validated request met the missing credential
C3_Witness ==
  /\ apiKey = ""
  /\ pc = "Error"
  /\ ~Blank(jobDescriptionField)
  /\ Accepted(file)
  /\ sent = <<JsonError(500, "Server missing GEMINI_API_KEY")>>

\* C4: when the AI Gateway call raises for a validated request with a
\* credential configured, the handler answers HTTP 502 (not 500), and the
\* server goes on to serve later requests.
C4_UpstreamErrorIs502 ==
  (Terminal /\ aiResult = "raised")
    => /\ Answered(502)
       /\ ENABLED NextRequest

\* the value under name, typed as the format documents it
IsStr(v) == v.t = "str"
IsScore(v) == v.t = "num" /\ v.n \in 0..100
IsStrList(v) == v.t = "arr" /\ \A j \in 1..Len(v.kids) : IsStr(v.kids[j][2])

OptimizeSchema(d) ==
  /\ d.t = "obj"
  /\ IsStr(Get(d, "optimizedHtml"))
  /\ LET c == Get(d, "changes")
     IN  /\ c.t = "obj"
         /\ IsStrList(Get(c, "keywordsAdded"))
         /\ IsStrList(Get(c, "sectionsImproved"))
         /\ IsStrList(Get(c, "formattingAdjustments"))
         /\ IsStr(Get(c, "rationale"))

ScoreSchema(d) ==
  /\ d.t = "obj"
  /\ IsScore(Get(d, "overallScore"))
  /\ LET b == Get(d, "scoreBreakdown")
     IN  /\ b.t = "obj"
         /\ \A name \in {"keywordMatch", "formatting", "contentRelevance", "structure"} :
              IsScore(Get(b, name))
  /\ LET f == Get(d, "detailedFeedback")
         k == Get(f, "keywordAnalysis")
     IN  /\ f.t = "obj"
         /\ \A name \in {"strengths", "weaknesses", "formattingIssues", "recommendations"} :
              IsStrList(Get(f, name))
         /\ k.t = "obj"
         /\ \A name \in {"matched", "missing", "suggested"} : IsStrList(Get(k, name))
  /\ IsStr(Get(d, "atsCompatibility"))

Schema(ep, d) == IF ep = "/api/optimize" THEN OptimizeSchema(d) ELSE ScoreSchema(d)

\* what a success must carry for document d
Expected(ep, d) ==
  IF ep = "/api/optimize"
  THEN JObj(<<Member("optimizedHtml", Get(d, "optimizedHtml")),
              Member("changes", Get(d, "changes"))>>)
  ELSE d

\* A completion that is one JSON document, bare or in one fenced block
WellFormedCompletions ==
  {[text |-> Wrap(w, Stringify(d, sp)), wrap |-> w, doc |-> d,
    fences |-> Cardinality({j \in 1..Len(Stringify(d, sp)) : Stringify(d, sp)[j] = Fence})] :
     w \in Wraps, d \in Documents, sp \in Spacings}

RequiredTruthy(ep, d) ==
  IF ep = "/api/optimize"
  THEN Get(d, "optimizedHtml").s # <<>>
  ELSE Get(d, "overallScore").n # 0

\* the fence characters inside the document do not mislead the extractor:
\* none in a fenced document, at most one in a bare one
FenceSafe(c) == IF c.wrap = "bare" THEN c.fences <= 1 ELSE c.fences = 0

Required(ep) ==
  IF ep = "/api/optimize" THEN {"optimizedHtml", "changes"}
  ELSE {"overallScore", "scoreBreakdown", "detailedFeedback"}

\* C6: on both endpoints a completion whose extracted text parses as JSON
\* (any JSON value: null, number, array, object) but lacks a required field
\* is answered HTTP 502 'AI response missing required fields', never a
\* success.
C6_MissingFieldIs502 ==
  (/\ Terminal /\ aiResult = "text" /\ jsonStr.found /\ JSONparse(jsonStr.str).ok
   /\ \E name \in Required(endpoint) : ~Has(JSONparse(jsonStr.str).v, name))
    => sent = <<JsonError(502, "AI response missing required fields")>>

\* no fenced block and no '{' followed later by a '}'
NoCandidate(text) ==
  /\ Cardinality({j \in 1..Len(text) : text[j] = Fence}) < 2
  /\ ~\E i, j \in 1..Len(text) : i < j /\ text[i] = "{" /\ text[j] = "}"

\* C7: on both endpoints a completion in which the extractor finds no
\* candidate, or whose candidate fails to parse as JSON, is answered HTTP
\* 502 with an error body and never with a success.
C7_NoJsonIs502 ==
  (/\ Terminal /\ aiResult = "text"
   /\ \/ NoCandidate(responseText)
      \/ ~jsonStr.found
      \/ ~JSONparse(jsonStr.str).ok)
    => /\ Answered(502)
       /\ sent[1].type = "json"
       /\ sent[1].error # ""
       /\ sent[1].body = JUndefined

\* C7: a completion without fence or brace was answered 502
C7_Witness ==
  /\ pc = "Error"
  /\ aiResult = "text"
  /\ NoCandidate(responseText)
  /\ responseText = <<"null">>
  /\ Answered(502)

\* the fenced blocks labeled as JSON: <<i, k, e>> with the opening fence at
\* i, only whitespace up to the label at k, and the next fence at e
JsonBlocks(text) ==
  LET F == {j \in 1..Len(text) : text[j] = Fence}
      L == {j \in 1..Len(text) : text[j] \in JsonLabels}
  IN  {b \in F \X L \X F :
         /\ b[1] < b[2] /\ b[2] < b[3]
         /\ \A j \in (b[1] + 1)..(b[2] - 1) : IsSpace(text[j])
         /\ \A j \in (b[2] + 1)..(b[3] - 1) : text[j] # Fence}

FirstJsonBlock(text) ==
  CHOOSE b \in JsonBlocks(text) : \A o \in JsonBlocks(text) : b[1] <= o[1]

\* the interior of the first block labeled as JSON, trimmed
FirstJsonInterior(text) ==
  LET b == FirstJsonBlock(text)
      keep == {j \in (b[2] + 1)..(b[3] - 1) : ~IsSpace(text[j])}
  IN  IF keep = {} THEN <<>>
      ELSE [j \in 1..(Max(keep) - Min(keep) + 1) |-> text[Min(keep) + j - 1]]

Extracted == aiResult = "text"

C9_ConfiguredModelIsUsed ==
  \A j \in 1..Len(aiCalls) : aiCalls[j].model = modelName

\* C10: every request comes to exactly one terminal state with exactly one
\* response written, never none and never two, whatever each step yields.
C10_ExactlyOneResponse ==
  /\ [](Len(sent) <= 1)
  /\ [](Terminal <=> Len(sent) = 1)
  /\ [](pc # "Idle" => <>Terminal)

\* C10: a request ended by an exception thrown inside the handler
C10_Witness ==
  /\ pc = "Error"
  /\ parsed = JNull
  /\ Len(sent) = 1
  /\ sent[1].error = "Server error"

====
